---- MODULE Spec2Model ----
(***************************************************************************)
(* Verification model of the mxs (i.MX23/i.MX28) regulator driver.         *)
(*                                                                         *)
(* Three revisions of the driver are covered:                              *)
(*   rev "A"  current-budget revision (mxs_set_current_limit, set_mode     *)
(*            with BM_POWER_REG_MODE), src/unnamed/part_000 lines 561ff    *)
(*   rev "B"  src/drivers/regulator/mxs-regulator.c (mode_mask per kind)   *)
(*   rev "C"  selector revision with the power source classifier,          *)
(*            src/unnamed/part_000 lines 1-559                             *)
(***************************************************************************)
EXTENDS Integers, Naturals, Sequences, FiniteSets, TLC

(***************************************************************************)
(* 32-bit register arithmetic                                              *)
(***************************************************************************)
BIT(n) == 2^n

RECURSIVE AndBits(_, _, _)
AndBits(x, y, n) ==
  IF n = 0 \/ x = 0 \/ y = 0 THEN 0
  ELSE (IF x % 2 = 1 /\ y % 2 = 1 THEN 1 ELSE 0)
       + 2 * AndBits(x \div 2, y \div 2, n - 1)

\* x & y on u32
And(x, y) == AndBits(x, y, 32)

\* x & ~y on u32 (the complement itself is never materialised)
AndNot(x, y) == x - And(x, y)

\* x | y on u32
Or(x, y) == x + y - And(x, y)

\* x >> n
Shr(x, n) == x \div (2^n)

\* truncation to u8 (return type of get_linreg_offset and the classifiers)
U8(x) == x % 256

(***************************************************************************)
(* Register bits and power source codes (rev C)                            *)
(***************************************************************************)
HW_POWER_LINREG_OFFSET_LINREG_MODE == 0
HW_POWER_LINREG_OFFSET_DCDC_MODE == 2

HW_POWER_LINREG_DCDC_OFF == 1
HW_POWER_LINREG_DCDC_READY == 2
HW_POWER_DCDC_LINREG_ON == 3
HW_POWER_DCDC_LINREG_OFF == 4
HW_POWER_DCDC_LINREG_READY == 5
HW_POWER_EXTERNAL_SOURCE_5V == 6
HW_POWER_EXTERNAL_SOURCE_BATTERY == 7
HW_POWER_UNKNOWN_SOURCE == 8

\* the eight PowerSourceState values
PowerSourceStates ==
  { HW_POWER_LINREG_DCDC_OFF, HW_POWER_LINREG_DCDC_READY,
    HW_POWER_DCDC_LINREG_ON, HW_POWER_DCDC_LINREG_OFF,
    HW_POWER_DCDC_LINREG_READY, HW_POWER_EXTERNAL_SOURCE_5V,
    HW_POWER_EXTERNAL_SOURCE_BATTERY, HW_POWER_UNKNOWN_SOURCE }

BM_POWER_STS_VBUSVALID0_STATUS == BIT(15)
BM_POWER_STS_DC_OK == BIT(9)
BM_POWER_5VCTRL_ILIMIT_EQ_ZERO == BIT(2)
BM_POWER_5VCTRL_ENABLE_DCDC == BIT(0)

\* rev A: the one mode bit used for every regulator
BM_POWER_REG_MODE == BIT(17)

(***************************************************************************)
(* Regulator descriptors (rev C)                                           *)
(***************************************************************************)
imx23_info_vddio ==
  [ name |-> "vddio", n_voltages |-> 32, vsel_mask |-> 31, enable_mask |-> 0,
    disable_fet_mask |-> BIT(16), linreg_offset_mask |-> 3 * BIT(12),
    linreg_offset_shift |-> 12, get_power_source |-> "vddio" ]

imx28_info_vddio ==
  [ name |-> "vddio", n_voltages |-> 17, vsel_mask |-> 31, enable_mask |-> 0,
    disable_fet_mask |-> BIT(16), linreg_offset_mask |-> 3 * BIT(12),
    linreg_offset_shift |-> 12, get_power_source |-> "vddio" ]

mxs_info_vdda ==
  [ name |-> "vdda", n_voltages |-> 32, vsel_mask |-> 31,
    enable_mask |-> BIT(17),
    disable_fet_mask |-> BIT(16), linreg_offset_mask |-> 3 * BIT(12),
    linreg_offset_shift |-> 12, get_power_source |-> "vdda_vddd" ]

mxs_info_vddd ==
  [ name |-> "vddd", n_voltages |-> 32, vsel_mask |-> 31,
    enable_mask |-> BIT(21),
    disable_fet_mask |-> BIT(20), linreg_offset_mask |-> 3 * BIT(16),
    linreg_offset_shift |-> 16, get_power_source |-> "vdda_vddd" ]

\* the of_device_id match table: compatible string -> descriptor
\* (fsl,imx23-vdda and fsl,imx28-vdda share mxs_info_vdda, likewise vddd)
Kinds == { "imx23-vddio", "imx28-vddio", "vdda", "vddd" }

of_mxs_regulator_match(k) ==
  CASE k = "imx23-vddio" -> imx23_info_vddio
    [] k = "imx28-vddio" -> imx28_info_vddio
    [] k = "vdda" -> mxs_info_vdda
    [] k = "vddd" -> mxs_info_vddd

(***************************************************************************)
(* Power source classifier (rev C)                                         *)
(***************************************************************************)
\* regs & sreg->linreg_offset_mask >> sreg->linreg_offset_shift : in C the
\* shift binds tighter than &, so the mask is shifted, not the masked value
get_linreg_offset(sreg, regs) ==
  U8(And(regs, Shr(sreg.linreg_offset_mask, sreg.linreg_offset_shift)))

get_vddio_power_source(sreg, v5ctrl_r, status_r, base_r) ==
  LET linreg == get_linreg_offset(sreg, base_r) IN
  IF And(status_r, BM_POWER_STS_VBUSVALID0_STATUS) # 0
  THEN IF And(base_r, sreg.disable_fet_mask) # 0
          /\ linreg = HW_POWER_LINREG_OFFSET_LINREG_MODE
       THEN HW_POWER_LINREG_DCDC_OFF
       ELSE IF And(v5ctrl_r, BM_POWER_5VCTRL_ENABLE_DCDC) # 0
            THEN IF linreg = HW_POWER_LINREG_OFFSET_DCDC_MODE
                 THEN HW_POWER_DCDC_LINREG_ON
                 ELSE HW_POWER_UNKNOWN_SOURCE
            ELSE IF linreg = HW_POWER_LINREG_OFFSET_LINREG_MODE
                 THEN HW_POWER_LINREG_DCDC_OFF
                 ELSE HW_POWER_UNKNOWN_SOURCE
  ELSE IF linreg = HW_POWER_LINREG_OFFSET_DCDC_MODE
       THEN HW_POWER_DCDC_LINREG_ON
       ELSE HW_POWER_UNKNOWN_SOURCE

\* mutant: the own enable bit is ignored on the battery path
get_vdda_vddd_power_source_noen(d, v5ctrl_r, status_r, base_r) ==
  LET linreg == get_linreg_offset(d, base_r)
      vbus == And(status_r, BM_POWER_STS_VBUSVALID0_STATUS) # 0
      fet == And(base_r, d.disable_fet_mask) # 0
  IN
  IF fet /\ vbus THEN HW_POWER_EXTERNAL_SOURCE_5V
  ELSE IF fet /\ linreg = HW_POWER_LINREG_OFFSET_LINREG_MODE
       THEN HW_POWER_LINREG_DCDC_OFF
  ELSE IF vbus
       THEN IF And(v5ctrl_r, BM_POWER_5VCTRL_ENABLE_DCDC) # 0
            THEN HW_POWER_DCDC_LINREG_ON
            ELSE HW_POWER_LINREG_DCDC_OFF
  ELSE IF linreg = HW_POWER_LINREG_OFFSET_DCDC_MODE
       THEN HW_POWER_DCDC_LINREG_ON
  ELSE HW_POWER_UNKNOWN_SOURCE

get_vdda_vddd_power_source(sreg, v5ctrl_r, status_r, base_r) ==
  LET linreg == get_linreg_offset(sreg, base_r)
      vbus == And(status_r, BM_POWER_STS_VBUSVALID0_STATUS) # 0
      fet == And(base_r, sreg.disable_fet_mask) # 0
  IN
  IF fet /\ vbus THEN HW_POWER_EXTERNAL_SOURCE_5V
  ELSE IF fet /\ linreg = HW_POWER_LINREG_OFFSET_LINREG_MODE
       THEN HW_POWER_LINREG_DCDC_OFF
  ELSE IF vbus
       THEN IF And(v5ctrl_r, BM_POWER_5VCTRL_ENABLE_DCDC) # 0
            THEN HW_POWER_DCDC_LINREG_ON
            ELSE HW_POWER_LINREG_DCDC_OFF
  ELSE IF linreg = HW_POWER_LINREG_OFFSET_DCDC_MODE
       THEN IF And(base_r, sreg.enable_mask) # 0
            THEN HW_POWER_DCDC_LINREG_ON
            ELSE HW_POWER_DCDC_LINREG_OFF
  ELSE HW_POWER_UNKNOWN_SOURCE

\* mutant: every descriptor dispatches to the vddio tree
get_power_source_vddio(sreg, v5ctrl_r, status_r, base_r) ==
  get_vddio_power_source(sreg, v5ctrl_r, status_r, base_r)

\* sreg->get_power_source(reg): dispatch through the descriptor
get_power_source(sreg, v5ctrl_r, status_r, base_r) ==
  IF sreg.get_power_source = "vddio"
  THEN get_vddio_power_source(sreg, v5ctrl_r, status_r, base_r)
  ELSE get_vdda_vddd_power_source(sreg, v5ctrl_r, status_r, base_r)

(***************************************************************************)
(* Mode controller (rev A and rev B)                                       *)
(***************************************************************************)
\* rev B regulator names (mxs_reg_desc); rev A adds "overall_current"
ModeNames == { "vddio", "vdda", "vddd" }

\* rev B: mxs_regulator_probe, switch (sreg->rdesc.id); rev A: one #define
mode_mask(r, name) ==
  IF r = "A" THEN BM_POWER_REG_MODE
  ELSE CASE name = "vddio" -> BIT(17)
         [] name = "vdda" -> BIT(18)
         [] name = "vddd" -> BIT(22)

\* mutant: NORMAL masks with mode_mask instead of its complement
set_mode_value_nocompl(mask, val, m) ==
  CASE m = "FAST" -> Or(val, mask)
    [] m = "NORMAL" -> And(val, mask)
    [] OTHER -> val

\* value written to the control register by mxs_set_mode; the register is
\* left alone for a mode that is neither FAST nor NORMAL
set_mode_value(mask, val, m) ==
  CASE m = "FAST" -> Or(val, mask)
    [] m = "NORMAL" -> AndNot(val, mask)
    [] OTHER -> val

set_mode_ret_ok(m) == "OK"

set_mode_ret(m) == IF m \in { "FAST", "NORMAL" } THEN "OK" ELSE "EINVAL"

\* writel() calls of mxs_set_mode: one in each of the two cases that have a
\* register access, none in the default case
set_mode_writes(m) == IF m \in { "FAST", "NORMAL" } THEN 1 ELSE 0

mxs_get_mode(mask, val) == IF And(val, mask) # 0 THEN "FAST" ELSE "NORMAL"

(***************************************************************************)
(* Bounds                                                                  *)
(***************************************************************************)
\* selectors offered to mxs_set_voltage_sel: the SelSpan + 1 lowest ones and
\* those within SelSpan of n_voltages, below and above it
SelSpan == 2
\* scaled msecs_to_jiffies(20000): clock ticks before the poll gives up
PollTicks == 2
\* scaled iteration counts of the udelay(1) loops of mxs_set_voltage: the
\* first loop (20) and the later loops of rev A (40000 each)
FastSpins == 2
SlowSpins == 3
\* max_uV arguments offered to mxs_set_voltage: those within UvSpan steps of
\* either end of the constraint range, inside and one step outside it
UvSpan == 1
\* ceiling of the parent budget and largest request, in budget units
Ceiling == 2
MaxReq == 3

\* calls of set_current_limit and set_mode made on the current-limited
\* instances in one behaviour
MaxCalls == 4

(***************************************************************************)
(* State                                                                   *)
(***************************************************************************)
VARIABLES
  rev,      \* driver revision the behaviour runs: "A", "B" or "C"
  kind,     \* descriptor of the voltage regulator under test
  base,     \* its control register (sreg->base_addr)
  status,   \* shared HW_POWER_STS register
  v5ctrl,   \* shared HW_POWER_5VCTRL register
  vpc,      \* position of the running mxs_set_voltage_sel call
  vsel,     \* its sel argument
  vret,     \* its return value, "none" while it runs
  writes,   \* writel() calls made by the current / last set call
  elapsed,  \* jiffies - start in the poll loop
  vgot,     \* last mxs_get_voltage_sel result, -1 when stale
  ps,       \* last classifier result, 0 when stale
  m1,       \* mode argument of the last mxs_set_mode call
  m2,       \* mode argument of the call before it
  b1,       \* control register before the call m1
  b2,       \* control register before the call m2
  mret,     \* return value of the last mxs_set_mode call
  mwrites,  \* writel() calls made by the last mxs_set_mode call
  cur_uA,   \* sreg->cur_uA per current-limited instance
  max_uA,   \* sreg->max_uA per instance
  mode,     \* sreg->mode per instance
  abase,    \* control register of each current-limited instance
  apc,      \* position of each instance's mxs_set_current_limit call
  req,      \* its max_uA argument
  aret,     \* its return value
  lock,     \* holder of the parent's spinlock, "free" when not held
  waited,   \* the running / last call went through wait_event
  con,      \* regulation constraints of the regulator: min_uV, max_uV
  uv,       \* max_uV argument of the running / last mxs_set_voltage call
  iter,     \* its loop counter i
  vregs,    \* its local regs: the register read with the select field cleared
  misc,     \* HW_POWER_MISC register
  cpc,      \* position of the running set_dcdc_clk_freq call
  ckhz,     \* its kHz argument
  cval,     \* its local val
  cret,     \* its return value, "none" while it runs
  cwrites,  \* writel() calls made by the running / last set_dcdc_clk_freq
  cgot,     \* last get_dcdc_clk_freq result, 0 when stale
  ipc,      \* "bind" until regulator_init has run, "done" after it
  ibase,    \* control register as regulator_init found it
  iwrites,  \* writel() calls made by regulator_init
  applied,  \* what the running mxs_set_current_limit call of each instance
            \* has added to its parent's cur_uA so far, 0 when none runs
  parent,   \* sreg->parent per instance, "NULL" when it has none
  seen,     \* the parent's cur_uA as the running main_add_current of each
            \* instance has loaded it, 0 when none runs
  calls     \* number of set_current_limit and set_mode calls made so far on
            \* the current-limited instances

regvars == << rev, kind, base, status, v5ctrl, vpc, vsel, vret, writes,
              elapsed, vgot, ps >>
modevars == << m1, m2, b1, b2, mret, mwrites >>
arbvars == << cur_uA, max_uA, mode, abase, apc, req, aret, lock, waited,
             applied, parent, seen, calls >>
volvars == << con, uv, iter, vregs >>
clkvars == << misc, cpc, ckhz, cval, cret, cwrites, cgot >>
initvars == << ipc, ibase, iwrites >>
vars == << regvars, modevars, arbvars, volvars, clkvars, initvars >>

sreg == of_mxs_regulator_match(kind)

(***************************************************************************)
(* Idle values of the parts a specification does not exercise              *)
(***************************************************************************)
Insts == { "P", "A", "B" }

RegIdle ==
  /\ vpc = "idle" /\ vsel = 0 /\ vret = "none" /\ writes = 0
  /\ elapsed = 0 /\ vgot = -1 /\ ps = 0

ModeIdle ==
  /\ m1 = "none" /\ m2 = "none" /\ b1 = 0 /\ b2 = 0 /\ mret = "none"
  /\ mwrites = 0

ArbIdle ==
  /\ cur_uA = [i \in Insts |-> 0]
  /\ max_uA = [i \in Insts |-> 0]
  /\ mode = [i \in Insts |-> "NONE"]
  /\ abase = [i \in Insts |-> 0]
  /\ apc = [i \in Insts |-> "idle"]
  /\ req = [i \in Insts |-> 0]
  /\ aret = [i \in Insts |-> "none"]
  /\ lock = "free"
  /\ waited = [i \in Insts |-> FALSE]
  /\ applied = [i \in Insts |-> 0]
  /\ parent = [i \in Insts |-> "NULL"]
  /\ seen = [i \in Insts |-> 0]
  /\ calls = 0

BindIdle == ipc = "done" /\ ibase = 0 /\ iwrites = 0

VolIdle ==
  /\ con = [ min_uV |-> 0, max_uV |-> 0 ] /\ uv = 0 /\ iter = 0 /\ vregs = 0

ClkIdle ==
  /\ misc = 0 /\ cpc = "idle" /\ ckhz = 0 /\ cval = 0 /\ cret = "none"
  /\ cwrites = 0 /\ cgot = 0

(***************************************************************************)
(* Voltage stepping engine and classifier, rev C                           *)
(***************************************************************************)
\* register contents the hardware may hold at bind time
TrgVals == { 10, 21 }

BaseVals(d) ==
  { trg + fet * d.disable_fet_mask + en * d.enable_mask
        + off * BIT(d.linreg_offset_shift) :
      trg \in TrgVals, fet \in { 0, 1 }, en \in { 0, 1 },
      off \in { 0, 2 } }

StatusVals ==
  { dc * BM_POWER_STS_DC_OK + vb * BM_POWER_STS_VBUSVALID0_STATUS :
      dc \in { 0, 1 }, vb \in { 0, 1 } }

V5Vals == { BM_POWER_5VCTRL_ILIMIT_EQ_ZERO,
            BM_POWER_5VCTRL_ILIMIT_EQ_ZERO + BM_POWER_5VCTRL_ENABLE_DCDC }

Sels(d) ==
  (0..SelSpan) \cup ((d.n_voltages - SelSpan)..(d.n_voltages + SelSpan))

\* the test guarding the correction: linreg below the DC-DC encoding and one
\* of the three cases of the switch
regulator_init_fixes(linreg, power_source) ==
  /\ linreg < HW_POWER_LINREG_OFFSET_DCDC_MODE
  /\ power_source \in { HW_POWER_DCDC_LINREG_ON, HW_POWER_DCDC_LINREG_READY,
                         HW_POWER_EXTERNAL_SOURCE_5V }

\* base &= ~linreg_offset_mask; base |= HW_POWER_LINREG_OFFSET_DCDC_MODE
regulator_init_value(d, val) ==
  Or(AndNot(val, d.linreg_offset_mask), HW_POWER_LINREG_OFFSET_DCDC_MODE)

\* the control register as regulator_init leaves it
regulator_init_base(d, v5ctrl_r, status_r, base_r) ==
  IF regulator_init_fixes(get_linreg_offset(d, base_r),
                          get_power_source(d, v5ctrl_r, status_r, base_r))
  THEN regulator_init_value(d, base_r)
  ELSE base_r

\* the state mxs_regulator_probe leaves: the registers as found, the control
\* register after the regulator_init call that ends the probe
InitSel ==
  /\ rev = "C"
  /\ kind \in Kinds
  /\ status \in StatusVals
  /\ v5ctrl \in V5Vals
  /\ \E b \in BaseVals(of_mxs_regulator_match(kind)) :
       base = regulator_init_base(of_mxs_regulator_match(kind), v5ctrl,
                                  status, b)
  /\ RegIdle /\ ModeIdle /\ ArbIdle /\ VolIdle /\ ClkIdle /\ BindIdle

\* mutant: the previous select bits are not cleared before the OR
vsel_write_value_keep(d, val, sel) == Or(sel, val)

\* sel | (readl(base_addr) & ~vsel_mask)
vsel_write_value(d, val, sel) == Or(sel, AndNot(val, d.vsel_mask))

\* mutant: off-by-one range check, sel = n_voltages slips through
sel_invalid_gt(d, sel) == sel > d.n_voltages

\* the range check at the head of mxs_set_voltage_sel
sel_invalid(d, sel) == sel >= d.n_voltages

\* mutant: the selector is written as the whole register
mxs_set_voltage_sel_bare(sel) ==
  /\ rev = "C"
  /\ vpc = "idle"
  /\ vsel' = sel
  /\ elapsed' = 0
  /\ IF sel_invalid(sreg, sel)
     THEN /\ vret' = "EINVAL"
          /\ writes' = 0
          /\ UNCHANGED << base, vpc, vgot, ps >>
     ELSE /\ base' = sel
          /\ writes' = 1
          /\ vret' = "none"
          /\ vpc' = "classify"
          /\ vgot' = -1
          /\ ps' = 0
  /\ UNCHANGED << rev, kind, status, v5ctrl, modevars, arbvars, volvars,
                  clkvars, initvars >>

\* mxs_set_voltage_sel, entry: range check, then the read-modify-write
mxs_set_voltage_sel(sel) ==
  /\ rev = "C"
  /\ vpc = "idle"
  /\ vsel' = sel
  /\ elapsed' = 0
  /\ IF sel_invalid(sreg, sel)
     THEN /\ vret' = "EINVAL"
          /\ writes' = 0
          /\ UNCHANGED << base, vpc, vgot, ps >>
     ELSE /\ base' = vsel_write_value(sreg, base, sel)
          /\ writes' = 1
          /\ vret' = "none"
          /\ vpc' = "classify"
          /\ vgot' = -1
          /\ ps' = 0
  /\ UNCHANGED << rev, kind, status, v5ctrl, modevars, arbvars, volvars,
                  clkvars, initvars >>

\* mutant: an externally sourced regulator is polled too
skip_poll_noext(src) ==
  src \in { HW_POWER_LINREG_DCDC_OFF, HW_POWER_LINREG_DCDC_READY }

\* the classifications for which the DC_OK poll is skipped
skip_poll(src) ==
  src \in { HW_POWER_LINREG_DCDC_OFF, HW_POWER_LINREG_DCDC_READY,
            HW_POWER_EXTERNAL_SOURCE_5V }

\* mxs_set_voltage_sel, after the write: the classifier reads the three
\* registers and the switch picks msleep(1000) or usleep_range(15000, 20000)
set_voltage_sel_classify ==
  /\ vpc = "classify"
  /\ vpc' = IF skip_poll(get_power_source(sreg, v5ctrl, status, base))
            THEN "msleep" ELSE "usleep"
  /\ ps' = get_power_source(sreg, v5ctrl, status, base)
  /\ UNCHANGED << rev, kind, base, status, v5ctrl, vsel, vret, writes,
                  elapsed, vgot, modevars, arbvars, volvars,
                  clkvars, initvars >>

\* msleep(1000) is over: return 0
set_voltage_sel_msleep ==
  /\ vpc = "msleep"
  /\ vpc' = "idle" /\ vret' = "OK"
  /\ elapsed' = 0
  /\ UNCHANGED << rev, kind, base, status, v5ctrl, vsel, writes,
                  vgot, ps, modevars, arbvars, volvars,
                  clkvars, initvars >>

\* usleep_range(15000, 20000) is over: start = jiffies, enter the poll loop
set_voltage_sel_usleep ==
  /\ vpc = "usleep"
  /\ vpc' = "poll"
  /\ elapsed' = 0
  /\ UNCHANGED << rev, kind, base, status, v5ctrl, vsel, vret, writes,
                  vgot, ps, modevars, arbvars, volvars,
                  clkvars, initvars >>

\* poll loop: DC_OK seen
set_voltage_sel_poll_ok ==
  /\ vpc = "poll"
  /\ And(status, BM_POWER_STS_DC_OK) # 0
  /\ vpc' = "idle" /\ vret' = "OK"
  /\ elapsed' = 0
  /\ UNCHANGED << rev, kind, base, status, v5ctrl, vsel, writes,
                  vgot, ps, modevars, arbvars, volvars,
                  clkvars, initvars >>

\* mutant: the deadline lies one tick beyond what the clock can reach
set_voltage_sel_poll_timeout_late ==
  /\ vpc = "poll"
  /\ And(status, BM_POWER_STS_DC_OK) = 0
  /\ elapsed > PollTicks + 1
  /\ vpc' = "idle" /\ vret' = "ETIMEDOUT"
  /\ elapsed' = 0
  /\ UNCHANGED << rev, kind, base, status, v5ctrl, vsel, writes,
                  vgot, ps, modevars, arbvars, volvars,
                  clkvars, initvars >>

\* poll loop: DC_OK clear and time_after(jiffies, start + timeout)
set_voltage_sel_poll_timeout ==
  /\ vpc = "poll"
  /\ And(status, BM_POWER_STS_DC_OK) = 0
  /\ elapsed > PollTicks
  /\ vpc' = "idle" /\ vret' = "ETIMEDOUT"
  /\ elapsed' = 0
  /\ UNCHANGED << rev, kind, base, status, v5ctrl, vsel, writes,
                  vgot, ps, modevars, arbvars, volvars,
                  clkvars, initvars >>

\* jiffies advances while the call polls
Tick ==
  /\ vpc = "poll" \/ (vpc = "slow" /\ rev = "B")
  /\ elapsed <= PollTicks
  /\ elapsed' = elapsed + 1
  /\ UNCHANGED << rev, kind, base, status, v5ctrl, vpc, vsel, vret, writes,
                  vgot, ps, modevars, arbvars, volvars,
                  clkvars, initvars >>

\* the hardware changes the shared status register
HwStatus ==
  /\ status' \in StatusVals \ { status }
  /\ ps' = 0
  /\ UNCHANGED << rev, kind, base, v5ctrl, vpc, vsel, vret, writes, elapsed,
                  vgot, modevars, arbvars, volvars,
                  clkvars, initvars >>

\* readl(base_addr) & vsel_mask
get_voltage_sel_value(d, val) == And(val, d.vsel_mask)

mxs_get_voltage_sel ==
  /\ rev = "C"
  /\ vpc = "idle"
  /\ vgot' = get_voltage_sel_value(sreg, base)
  /\ UNCHANGED << rev, kind, base, status, v5ctrl, vpc, vsel, vret, writes,
                  elapsed, ps, modevars, arbvars, volvars,
                  clkvars, initvars >>

\* mutant: the query also applies the bind-time offset correction
print_power_source_fixup ==
  /\ rev = "C"
  /\ vpc = "idle"
  /\ ps' = get_power_source(sreg, v5ctrl, status, base)
  /\ base' = Or(AndNot(base, sreg.linreg_offset_mask),
                HW_POWER_LINREG_OFFSET_DCDC_MODE)
  /\ UNCHANGED << rev, kind, status, v5ctrl, vpc, vsel, vret, writes,
                  elapsed, vgot, modevars, arbvars, volvars,
                  clkvars, initvars >>

\* print_power_source: a classifier query outside any set call
print_power_source ==
  /\ rev = "C"
  /\ vpc = "idle"
  /\ ps' = get_power_source(sreg, v5ctrl, status, base)
  /\ UNCHANGED << rev, kind, base, status, v5ctrl, vpc, vsel, vret, writes,
                  elapsed, vgot, modevars, arbvars, volvars,
                  clkvars, initvars >>

NextSel ==
  \/ \E sel \in Sels(sreg) : mxs_set_voltage_sel(sel)
  \/ set_voltage_sel_classify
  \/ set_voltage_sel_msleep
  \/ set_voltage_sel_usleep
  \/ set_voltage_sel_poll_ok
  \/ set_voltage_sel_poll_timeout
  \/ Tick
  \/ HwStatus
  \/ mxs_get_voltage_sel
  \/ print_power_source

SpecSel == InitSel /\ [][NextSel]_vars

(***************************************************************************)
(* Bind time, rev C: regulator_init                                        *)
(***************************************************************************)
\* control register as the boot loader left it: every low-bit pattern of the
\* select field and every value of the linear-regulator offset field
BindBaseVals(d) ==
  { trg + fet * d.disable_fet_mask + en * d.enable_mask
        + off * BIT(d.linreg_offset_shift) :
      trg \in { 0, 9, 18, 27 }, fet \in { 0, 1 }, en \in { 0, 1 },
      off \in 0 .. 3 }

InitBind ==
  /\ rev = "C"
  /\ kind \in Kinds
  /\ base \in BindBaseVals(sreg)
  /\ status \in StatusVals
  /\ v5ctrl \in V5Vals
  /\ ipc = "bind" /\ ibase = 0 /\ iwrites = 0
  /\ RegIdle /\ ModeIdle /\ ArbIdle /\ VolIdle /\ ClkIdle

regulator_init ==
  /\ ipc = "bind"
  /\ ibase' = base
  /\ ipc' = "done"
  /\ base' = regulator_init_base(sreg, v5ctrl, status, base)
  /\ iwrites' = IF regulator_init_fixes(
                      get_linreg_offset(sreg, base),
                      get_power_source(sreg, v5ctrl, status, base))
                THEN 1 ELSE 0
  /\ UNCHANGED << rev, kind, status, v5ctrl, vpc, vsel, vret, writes,
                  elapsed, vgot, ps, modevars, arbvars, volvars, clkvars >>

NextBind == regulator_init

SpecBind == InitBind /\ [][NextBind]_vars

(***************************************************************************)
(* Voltage stepping engine, rev A and rev B: mxs_set_voltage               *)
(***************************************************************************)
\* mxs_reg_desc[], the fields mxs_set_voltage reads; rev A declares the
\* same values
mxs_reg_desc(name) ==
  CASE name = "vddio" ->
         [ name |-> "vddio", n_voltages |-> 16, uV_step |-> 50000,
           vsel_mask |-> 31 ]
    [] name = "vdda" ->
         [ name |-> "vdda", n_voltages |-> 31, uV_step |-> 25000,
           vsel_mask |-> 31 ]
    [] name = "vddd" ->
         [ name |-> "vddd", n_voltages |-> 31, uV_step |-> 25000,
           vsel_mask |-> 31 ]

\* sreg->rdesc as mxs_regulator_probe leaves it: rev B copies n_voltages,
\* uV_step and vsel_mask from mxs_reg_desc[]; rev A sets name, owner, type,
\* ops, min_uV and vsel_reg only, so the rest is as devm_kzalloc zeroed it
rdesc(r, name) ==
  IF r = "A"
  THEN [ name |-> name, n_voltages |-> 0, uV_step |-> 0, vsel_mask |-> 0 ]
  ELSE mxs_reg_desc(name)

\* initdata->constraints of each regulator: the full range of the part and
\* a board that allows only the upper half of it
VolCons(name) ==
  LET d == mxs_reg_desc(name)
      lo == CASE name = "vddio" -> 2800000
              [] name = "vdda" -> 1500000
              [] name = "vddd" -> 800000
      hi == lo + d.n_voltages * d.uV_step
  IN { [ min_uV |-> lo, max_uV |-> hi ],
       [ min_uV |-> lo + 8 * d.uV_step, max_uV |-> hi ] }

\* max_uV arguments of the calls
VolReqs(d, c) ==
  { c.min_uV + k * d.uV_step : k \in (-1) .. UvSpan }
    \cup { c.max_uV - k * d.uV_step : k \in (-1) .. UvSpan }
    \cup { c.min_uV + 1, c.max_uV - 1 }

\* control register at bind time: a select value and a bit of another field
VolBaseVals == { trg + hi * BIT(17) : trg \in TrgVals, hi \in { 0, 1 } }

InitVol ==
  /\ rev \in { "A", "B" }
  /\ kind \in ModeNames
  /\ base \in VolBaseVals
  /\ status \in StatusVals
  /\ v5ctrl = 0
  /\ con \in VolCons(kind)
  /\ uv = 0 /\ iter = 0 /\ vregs = 0
  /\ RegIdle /\ ModeIdle /\ ArbIdle /\ ClkIdle /\ BindIdle

\* the range check of mxs_set_voltage
set_voltage_invalid(c, max_uV) == max_uV < c.min_uV \/ max_uV > c.max_uV

\* mutant: the quotient is rounded up
set_voltage_val_ceil(d, c, max_uV) ==
  ((max_uV - c.min_uV) * d.n_voltages + (c.max_uV - c.min_uV) - 1)
    \div (c.max_uV - c.min_uV)

\* val = (max_uV - con->min_uV) * n_voltages / (con->max_uV - con->min_uV)
set_voltage_val(d, c, max_uV) ==
  ((max_uV - c.min_uV) * d.n_voltages) \div (c.max_uV - c.min_uV)

\* val | regs, the word of both writel calls
set_voltage_word(val, regs) == Or(val, regs)

\* mutant: the slow phase of rev B gives up with 0
set_voltage_timeout_ret_ok(r) == "OK"

\* what the call returns when no phase saw DC_OK: -ETIMEDOUT in rev B, and
\* !i with i = 0, that is 1, in rev A
set_voltage_timeout_ret(r) == IF r = "A" THEN "1" ELSE "ETIMEDOUT"

\* mxs_set_voltage, entry: range check, val, regs and the first writel
mxs_set_voltage(max_uV) ==
  /\ rev \in { "A", "B" }
  /\ vpc = "idle"
  /\ uv' = max_uV
  /\ elapsed' = 0
  /\ IF set_voltage_invalid(con, max_uV)
     THEN /\ vret' = "EINVAL"
          /\ writes' = 0
          /\ UNCHANGED << base, vpc, vsel, iter, vregs, vgot >>
     ELSE /\ vsel' = set_voltage_val(rdesc(rev, kind), con, max_uV)
          /\ vgot' = -1
          /\ vregs' = AndNot(base, rdesc(rev, kind).vsel_mask)
          /\ base' = set_voltage_word(vsel', vregs')
          /\ writes' = 1
          /\ iter' = FastSpins
          /\ vret' = "none"
          /\ vpc' = "fast"
  /\ UNCHANGED << rev, kind, status, v5ctrl, ps, con, modevars,
                  arbvars, clkvars, initvars >>

\* mutant: the first loop running out enters the second loop directly,
\* without the second writel
set_voltage_fast_norewrite ==
  /\ vpc = "fast"
  /\ IF And(status, BM_POWER_STS_DC_OK) # 0
     THEN /\ vpc' = "idle" /\ vret' = "OK"
          /\ UNCHANGED iter
     ELSE /\ iter' = IF iter = 1 THEN SlowSpins ELSE iter - 1
          /\ vpc' = IF iter = 1 THEN "slow" ELSE "fast"
          /\ UNCHANGED vret
  /\ UNCHANGED << rev, kind, base, status, v5ctrl, vsel, writes, elapsed,
                  vgot, ps, con, uv, vregs, modevars, arbvars, clkvars, initvars >>

\* one iteration of the first loop: return (rev B) or break with i # 0 and
\* return !i = 0 (rev A) when DC_OK is set, else udelay(1) and i--
set_voltage_fast ==
  /\ vpc = "fast"
  /\ IF And(status, BM_POWER_STS_DC_OK) # 0
     THEN /\ vpc' = "idle" /\ vret' = "OK"
          /\ UNCHANGED iter
     ELSE /\ iter' = iter - 1
          /\ vpc' = IF iter' = 0 THEN "rewrite" ELSE "fast"
          /\ UNCHANGED vret
  /\ UNCHANGED << rev, kind, base, status, v5ctrl, vsel, writes, elapsed,
                  vgot, ps, con, uv, vregs, modevars, arbvars, clkvars, initvars >>

\* the first loop ran out: the second writel of val | regs, then
\* start = jiffies (rev B) or i = 40000 (rev A)
set_voltage_rewrite ==
  /\ vpc = "rewrite"
  /\ base' = set_voltage_word(vsel, vregs)
  /\ writes' = 2
  /\ elapsed' = 0
  /\ iter' = IF rev = "A" THEN SlowSpins ELSE 0
  /\ vpc' = "slow"
  /\ UNCHANGED << rev, kind, status, v5ctrl, vsel, vret, vgot, ps, con, uv,
                  vregs, modevars, arbvars, clkvars, initvars >>

\* the second loop. rev B: return 0 on DC_OK, -ETIMEDOUT once
\* time_after(jiffies, start + msecs_to_jiffies(80)), else schedule().
\* rev A: break on DC_OK, else udelay(1) and i--; i = 0 enters the third loop
set_voltage_slow ==
  /\ vpc = "slow"
  /\ IF And(status, BM_POWER_STS_DC_OK) # 0
     THEN /\ vpc' = "idle" /\ vret' = "OK"
          /\ elapsed' = 0
          /\ UNCHANGED iter
     ELSE IF rev = "B"
     THEN /\ elapsed > PollTicks
          /\ vpc' = "idle" /\ vret' = set_voltage_timeout_ret(rev)
          /\ elapsed' = 0
          /\ UNCHANGED iter
     ELSE /\ IF iter = 1
             THEN vpc' = "third" /\ iter' = SlowSpins
             ELSE vpc' = "slow" /\ iter' = iter - 1
          /\ UNCHANGED << vret, elapsed >>
  /\ UNCHANGED << rev, kind, base, status, v5ctrl, vsel, writes,
                  vgot, ps, con, uv, vregs, modevars, arbvars, clkvars, initvars >>

\* the third loop of rev A, entered without another writel: break on DC_OK,
\* else udelay(1) and i--; out: return !i
set_voltage_third ==
  /\ vpc = "third"
  /\ IF And(status, BM_POWER_STS_DC_OK) # 0
     THEN /\ vpc' = "idle" /\ vret' = "OK"
          /\ UNCHANGED iter
     ELSE /\ iter' = iter - 1
          /\ IF iter' = 0
             THEN vpc' = "idle" /\ vret' = set_voltage_timeout_ret(rev)
             ELSE vpc' = "third" /\ UNCHANGED vret
  /\ UNCHANGED << rev, kind, base, status, v5ctrl, vsel, writes, elapsed,
                  vgot, ps, con, uv, vregs, modevars, arbvars, clkvars, initvars >>

\* marks a mxs_get_voltage call that trapped on its division
DivFault == -2

\* uv of mxs_get_voltage for the register value r: the select field, capped
\* at n_voltages, scaled back into the constraint range.  With n_voltages
\* = 0 (rev A) the division is 0 / 0, which is undefined: the ARM division
\* helper reports it and yields 0, other builds trap
get_voltage_value(d, c, r) ==
  LET val == And(r, d.vsel_mask)
      capped == IF val > d.n_voltages THEN d.n_voltages ELSE val
  IN IF d.n_voltages = 0
     THEN { c.min_uV, DivFault }
     ELSE { c.min_uV + (capped * (c.max_uV - c.min_uV)) \div d.n_voltages }

mxs_get_voltage ==
  /\ rev \in { "A", "B" }
  /\ vpc = "idle"
  /\ vgot' \in get_voltage_value(rdesc(rev, kind), con, base)
  /\ UNCHANGED << rev, kind, base, status, v5ctrl, vpc, vsel, vret, writes,
                  elapsed, ps, modevars, arbvars, volvars, clkvars,
                  initvars >>

NextVol ==
  \/ mxs_get_voltage
  \/ \E max_uV \in VolReqs(mxs_reg_desc(kind), con) : mxs_set_voltage(max_uV)
  \/ set_voltage_fast
  \/ set_voltage_rewrite
  \/ set_voltage_slow
  \/ set_voltage_third
  \/ Tick
  \/ HwStatus

SpecVol == InitVol /\ [][NextVol]_vars

\* the voltage-set operations of all three revisions side by side
InitSet == InitSel \/ InitVol

NextSet ==
  \/ \E sel \in (IF rev = "C" THEN Sels(sreg) ELSE { }) :
        mxs_set_voltage_sel(sel)
  \/ set_voltage_sel_classify
  \/ set_voltage_sel_msleep
  \/ set_voltage_sel_usleep
  \/ set_voltage_sel_poll_ok
  \/ set_voltage_sel_poll_timeout
  \/ mxs_get_voltage_sel
  \/ print_power_source
  \/ \E max_uV \in (IF rev = "C" THEN { }
                     ELSE VolReqs(mxs_reg_desc(kind), con)) :
        mxs_set_voltage(max_uV)
  \/ set_voltage_fast
  \/ set_voltage_rewrite
  \/ set_voltage_slow
  \/ set_voltage_third
  \/ Tick
  \/ HwStatus

SpecSet == InitSet /\ [][NextSet]_vars

\* the steps of a running voltage-set call
SetStep ==
  \/ set_voltage_sel_classify
  \/ set_voltage_sel_msleep
  \/ set_voltage_sel_usleep
  \/ set_voltage_sel_poll_ok
  \/ set_voltage_sel_poll_timeout
  \/ set_voltage_fast
  \/ set_voltage_rewrite
  \/ set_voltage_slow
  \/ set_voltage_third

\* the caller of a running call is scheduled again whenever it can take a
\* step (udelay and schedule() return), and jiffies keeps advancing; the
\* hardware and the issuing of new calls are not forced
FairSet == SpecSet /\ WF_vars(SetStep) /\ WF_vars(Tick)

(***************************************************************************)
(* Mode controller, rev A and rev B                                        *)
(***************************************************************************)
\* control register contents at bind time: the three stepping bits of the
\* three regulators and the select field, in every combination
ModeBaseVals ==
  { trg + b17 * BIT(17) + b18 * BIT(18) + b22 * BIT(22) :
      trg \in TrgVals, b17 \in { 0, 1 }, b18 \in { 0, 1 }, b22 \in { 0, 1 } }

ModeArgs == { "FAST", "NORMAL", "IDLE", "STANDBY" }

InitMode ==
  /\ rev \in { "A", "B" }
  /\ kind \in ModeNames
  /\ base \in ModeBaseVals
  /\ status = 0 /\ v5ctrl = 0
  /\ RegIdle /\ ModeIdle /\ ArbIdle /\ VolIdle /\ ClkIdle /\ BindIdle

mxs_set_mode(m) ==
  /\ base' = set_mode_value(mode_mask(rev, kind), base, m)
  /\ mret' = set_mode_ret(m)
  /\ mwrites' = set_mode_writes(m)
  /\ m1' = m
  /\ m2' = m1
  /\ b1' = base
  /\ b2' = b1
  /\ UNCHANGED << rev, kind, status, v5ctrl, vpc, vsel, vret, writes,
                  elapsed, vgot, ps, arbvars, volvars,
                  clkvars, initvars >>

NextMode == \E m \in ModeArgs : mxs_set_mode(m)

SpecMode == InitMode /\ [][NextMode]_vars

(***************************************************************************)
(* Current budget arbiter, rev A                                           *)
(*                                                                         *)
(* "P", "A" and "B" are three instances named "overall_current", the only *)
(* ones bound to mxs_cur_rops.  Each instance runs at most one call at a   *)
(* time (the regulator core serialises the operations of one regulator);  *)
(* calls of different instances interleave at the granularity of the      *)
(* steps below.                                                            *)
(***************************************************************************)
\* mutant: every instance is taken to hang below "P"
ParentOf_self(t) == "P"

\* sreg->parent
ParentOf(t) == parent[t]

\* the instances that have a parent
Children == { t \in Insts : ParentOf(t) # "NULL" }

\* main_add_current: the test that makes it return -EINVAL
add_fails(cur, max, uA) == uA > 0 /\ cur + uA > max

\* mutant: the counter is updated before the test
add_result_always(cur, max, uA) == cur + uA

\* main_add_current: the counter after the call
add_result(cur, max, uA) == IF add_fails(cur, max, uA) THEN cur ELSE cur + uA

\* mutant: every failed reservation is returned to the caller
fast_mode_any(t) == TRUE

\* sreg->mode == REGULATOR_MODE_FAST
fast_mode(t) == mode[t] = "FAST"

\* the condition of wait_event(parent->wait_q, ...)
wait_cond(t) ==
  req[t] - cur_uA[t] < max_uA[ParentOf(t)] - cur_uA[ParentOf(t)]

\* values of sreg->mode: 0 as devm_kzalloc leaves it, REGULATOR_MODE_FAST,
\* REGULATOR_MODE_NORMAL
Modes == { "NONE", "FAST", "NORMAL" }

\* the instances as mxs_regulator_probe leaves them: devm_kzalloc zeroes the
\* structure and the probe assigns neither parent nor max_uA nor mode, so
\* every instance is parentless with max_uA = 0 and mode = 0; max_uA being
\* 0, the probe does not register reg_callback, the only writer of max_uA
InitArb ==
  /\ rev = "A"
  /\ kind = "vddio" /\ base = 0 /\ status = 0 /\ v5ctrl = 0
  /\ RegIdle /\ ModeIdle /\ VolIdle /\ ClkIdle /\ BindIdle
  /\ ArbIdle

\* The supply hierarchy of the specification ("an optional reference to a
\* parent instance from which its ceiling is sub-allocated", fixed when the
\* instances are bound): no statement of the driver assigns sreg->parent,
\* sreg->max_uA or sreg->mode, so this step has no counterpart in the
\* source.  It attaches "A" and "B" to "P", gives "P" the ceiling and each
\* child one of the two operating modes, before any operation has been
\* called.
attach_hierarchy ==
  /\ ArbIdle
  /\ parent' = [i \in Insts |-> IF i \in { "A", "B" } THEN "P" ELSE "NULL"]
  /\ max_uA' = [i \in Insts |-> IF i = "P" THEN Ceiling ELSE 0]
  /\ mode' \in { f \in [Insts -> Modes] :
                 f["P"] = "NONE" /\ f["A"] # "NONE" /\ f["B"] # "NONE" }
  /\ UNCHANGED << regvars, modevars, volvars, clkvars, initvars,
                  cur_uA, abase, apc, req, aret, lock, waited, applied,
                  seen, calls >>

\* mxs_set_current_limit, entry
set_current_limit_call(t, r) ==
  /\ apc[t] = "idle"
  /\ calls < MaxCalls
  /\ calls' = calls + 1
  /\ req' = [req EXCEPT ![t] = r]
  /\ aret' = [aret EXCEPT ![t] = "OK"]
  /\ waited' = [waited EXCEPT ![t] = FALSE]
  /\ applied' = [applied EXCEPT ![t] = 0]
  /\ apc' = [apc EXCEPT ![t] =
                IF ParentOf(t) # "NULL" THEN "lock1" ELSE "out"]
  /\ UNCHANGED << regvars, modevars, volvars, clkvars, initvars, parent,
                  seen, cur_uA, max_uA, mode, abase, lock >>

\* mxs_set_current_limit on an instance without parent, the whole call:
\* the reservation is skipped, nothing is locked, tested or woken, and the
\* only access to shared state is the store sreg->cur_uA = max_uA
set_current_limit_root(t, r) ==
  /\ apc[t] = "idle"
  /\ calls < MaxCalls
  /\ calls' = calls + 1
  /\ ParentOf(t) = "NULL"
  /\ aret' = [aret EXCEPT ![t] = "OK"]
  /\ cur_uA' = [cur_uA EXCEPT ![t] = r]
  /\ UNCHANGED << regvars, modevars, volvars, clkvars, initvars, parent,
                  seen, max_uA, mode, abase, apc, req, lock, waited,
                  applied >>

\* spin_lock_irqsave(&parent->lock), before either reservation attempt
lock_parent(t) ==
  /\ apc[t] \in { "lock1", "lock2" }
  /\ lock = "free"
  /\ lock' = t
  /\ apc' = [apc EXCEPT ![t] = IF apc[t] = "lock1" THEN "add1" ELSE "add2"]
  /\ UNCHANGED << regvars, modevars, volvars, clkvars, initvars, parent,
                  seen, calls, applied,
                  cur_uA, max_uA, mode, abase, req, aret,
                  waited >>

\* ret = main_add_current(parent, max_uA - sreg->cur_uA), under the lock:
\* the test.  A refused delta returns -EINVAL with the counter as it was;
\* an accepted one goes on to sreg->cur_uA += uA with the counter as the
\* test has loaded it
main_add_current(t) ==
  /\ apc[t] \in { "add1", "add2" }
  /\ LET p == ParentOf(t)
         uA == req[t] - cur_uA[t]
     IN IF add_fails(cur_uA[p], max_uA[p], uA)
        THEN /\ aret' = [aret EXCEPT ![t] = "EINVAL"]
             /\ cur_uA' = [cur_uA EXCEPT ![p] =
                             add_result(cur_uA[p], max_uA[p], uA)]
             /\ applied' = [applied EXCEPT ![t] =
                              @ + add_result(cur_uA[p], max_uA[p], uA)
                                - cur_uA[p]]
             /\ apc' = [apc EXCEPT ![t] =
                          IF apc[t] = "add1" THEN "unlock1" ELSE "unlock2"]
             /\ UNCHANGED seen
        ELSE /\ seen' = [seen EXCEPT ![t] = cur_uA[p]]
             /\ apc' = [apc EXCEPT ![t] =
                          IF apc[t] = "add1" THEN "store1" ELSE "store2"]
             /\ UNCHANGED << aret, cur_uA, applied >>
  /\ UNCHANGED << regvars, modevars, volvars, clkvars, initvars, parent, calls,
                  max_uA, mode, abase, req, lock, waited >>

\* sreg->cur_uA += uA compiled with a load of its own: the counter is read
\* again, after a store of the parent's own call (which takes no lock) has
\* changed it since the test
add_reload(t) ==
  /\ apc[t] \in { "store1", "store2" }
  /\ seen[t] # cur_uA[ParentOf(t)]
  /\ seen' = [seen EXCEPT ![t] = cur_uA[ParentOf(t)]]
  /\ UNCHANGED << regvars, modevars, volvars, clkvars, initvars, parent, calls,
                  cur_uA, max_uA, mode, abase, apc, req, aret, lock,
                  waited, applied >>

\* sreg->cur_uA += uA, the store of the loaded value plus uA; return 0
add_store(t) ==
  /\ apc[t] \in { "store1", "store2" }
  /\ cur_uA' = [cur_uA EXCEPT ![ParentOf(t)] =
                  seen[t] + req[t] - cur_uA[t]]
  /\ applied' = [applied EXCEPT ![t] = @ + req[t] - cur_uA[t]]
  /\ aret' = [aret EXCEPT ![t] = "OK"]
  /\ seen' = [seen EXCEPT ![t] = 0]
  /\ apc' = [apc EXCEPT ![t] =
                IF apc[t] = "store1" THEN "unlock1" ELSE "unlock2"]
  /\ UNCHANGED << regvars, modevars, volvars, clkvars, initvars, parent, calls,
                  max_uA, mode, abase, req, lock, waited >>

\* spin_unlock_irqrestore, then: reservation accepted, goto out
unlock_goto_out(t) ==
  /\ apc[t] \in { "unlock1", "unlock2" }
  /\ aret[t] = "OK"
  /\ lock' = "free"
  /\ apc' = [apc EXCEPT ![t] = "out"]
  /\ UNCHANGED << regvars, modevars, volvars, clkvars, initvars, parent,
                  seen, calls, applied,
                  cur_uA, max_uA, mode, abase, req, aret,
                  waited >>

\* first attempt refused and sreg->mode is FAST: return ret
unlock_fast_fail(t) ==
  /\ apc[t] = "unlock1"
  /\ aret[t] = "EINVAL"
  /\ fast_mode(t)
  /\ lock' = "free"
  /\ applied' = [applied EXCEPT ![t] = 0]
  /\ apc' = [apc EXCEPT ![t] = "idle"]
  /\ UNCHANGED << regvars, modevars, volvars, clkvars, initvars, parent,
                  seen, calls,
                  cur_uA, max_uA, mode, abase, req, aret,
                  waited >>

\* attempt refused otherwise: (re-)enter the while (ret) loop
unlock_wait(t) ==
  /\ apc[t] \in { "unlock1", "unlock2" }
  /\ aret[t] = "EINVAL"
  /\ apc[t] = "unlock1" => ~fast_mode(t)
  /\ lock' = "free"
  /\ apc' = [apc EXCEPT ![t] = "wait"]
  /\ UNCHANGED << regvars, modevars, volvars, clkvars, initvars, parent,
                  seen, calls, applied,
                  cur_uA, max_uA, mode, abase, req, aret,
                  waited >>

\* wait_event: the condition is evaluated on entry and after every wake;
\* the caller proceeds when it holds and sleeps on the queue otherwise
wait_event(t) ==
  /\ apc[t] = "wait"
  /\ waited' = [waited EXCEPT ![t] = TRUE]
  /\ apc' = [apc EXCEPT ![t] = IF wait_cond(t) THEN "lock2" ELSE "sleep"]
  /\ UNCHANGED << regvars, modevars, volvars, clkvars, initvars, parent,
                  seen, calls, applied,
                  cur_uA, max_uA, mode, abase, req, aret,
                  lock >>

\* mutant: the wake is issued by the requests that raise the allocation
wakes_raise(t) == ParentOf(t) # "NULL" /\ req[t] - cur_uA[t] > 0

\* out: wake_up_all(&parent->wait_q) if the request lowers the allocation
wakes(t) == ParentOf(t) # "NULL" /\ req[t] - cur_uA[t] < 0

out_wake(t) ==
  /\ apc[t] = "out"
  /\ apc' = [i \in Insts |->
               IF i = t THEN "commit"
               ELSE IF wakes(t) /\ apc[i] = "sleep"
                       /\ ParentOf(i) = ParentOf(t)
                    THEN "wait" ELSE apc[i]]
  /\ UNCHANGED << regvars, modevars, volvars, clkvars, initvars, parent,
                  seen, calls, applied,
                  cur_uA, max_uA, mode, abase, req, aret,
                  lock, waited >>

\* sreg->cur_uA = max_uA; return 0
commit(t) ==
  /\ apc[t] = "commit"
  /\ cur_uA' = [cur_uA EXCEPT ![t] = req[t]]
  /\ aret' = [aret EXCEPT ![t] = "OK"]
  /\ applied' = [applied EXCEPT ![t] = 0]
  /\ apc' = [apc EXCEPT ![t] = "idle"]
  /\ UNCHANGED << regvars, modevars, volvars, clkvars, initvars, parent,
                  seen, calls,
                  max_uA, mode, abase, req, lock, waited >>

\* mxs_set_mode of rev A on a current-limited instance: the register bit
\* is written, sreg->mode is not
arb_set_mode(t, m) ==
  /\ apc[t] = "idle"
  /\ calls < MaxCalls
  /\ calls' = calls + 1
  /\ abase' = [abase EXCEPT ![t] =
                  set_mode_value(mode_mask("A", "overall_current"),
                                 abase[t], m)]
  /\ UNCHANGED << regvars, modevars, volvars, clkvars, initvars, parent,
                  seen, applied, cur_uA, max_uA, mode, apc, req,
                  aret, lock, waited >>

\* mxs_get_mode of rev A on a current-limited instance
arb_get_mode(t) == mxs_get_mode(mode_mask("A", "overall_current"), abase[t])

\* the steps of a running call of t
Step(t) ==
  \/ lock_parent(t)
  \/ main_add_current(t)
  \/ add_store(t)
  \/ unlock_goto_out(t)
  \/ unlock_fast_fail(t)
  \/ unlock_wait(t)
  \/ wait_event(t)
  \/ out_wake(t)
  \/ commit(t)

Requests == 0..MaxReq

\* the instance that attach_hierarchy leaves without parent
Roots == { "P" }

\* the instances that attach_hierarchy gives a parent
Leaves == { "A", "B" }

\* the instances that issue calls in Spec: the probe binds mxs_cur_rops to
\* every instance
Callers == Roots \cup Leaves

\* the calls on "A" and "B", before and after they are attached to "P"
NextLeaves ==
  \/ attach_hierarchy
  \/ \E t \in Leaves :
       \/ \E r \in Requests : set_current_limit_call(t, r)
       \/ \E m \in { "FAST", "NORMAL" } : arb_set_mode(t, m)
       \/ Step(t)

\* set_current_limit and set_mode are called on every instance: on "P",
\* whose set_current_limit is one step, and on "A" and "B" position by
\* position
Next ==
  \/ NextLeaves
  \/ \E t \in Roots :
       \/ \E r \in Requests : set_current_limit_root(t, r)
       \/ \E m \in { "FAST", "NORMAL" } : arb_set_mode(t, m)
  \/ \E t \in Leaves : add_reload(t)

\* calls issued by "P", "A" and "B", as the probe leaves them or with "A"
\* and "B" attached to "P"
Spec == InitArb /\ [][Next]_vars

\* The calls on "A" and "B" alone, "P" making none, which is a behaviour
\* of Spec.  A running or woken caller is scheduled, and a caller spinning
\* on the parent's lock gets it once it is released often enough (critical
\* sections are finite); new calls are never forced
FairSpec ==
  /\ InitArb /\ [][NextLeaves]_vars
  /\ \A t \in Leaves : WF_vars(Step(t)) /\ SF_vars(lock_parent(t))

\* the instances that issue calls in SpecRoot
RootCallers == { "P", "A" }

\* as InitArb: the instances as mxs_regulator_probe leaves them
InitRoot == InitArb

\* the steps a call takes on an instance without parent
RootStep(t) ==
  \/ out_wake(t)
  \/ commit(t)

NextRoot ==
  \E t \in RootCallers :
    \/ \E r \in Requests : set_current_limit_call(t, r)
    \/ \E m \in { "FAST", "NORMAL" } : arb_set_mode(t, m)
    \/ RootStep(t)

\* calls on the instances as the probe leaves them, none of which has a
\* parent
SpecRoot == InitRoot /\ [][NextRoot]_vars

(***************************************************************************)
(* Claims on the current budget arbiter                                    *)
(***************************************************************************)

\* C1: for the parent "P" with its ceiling fixed and its two children "A"
\* and "B", child1.cur_uA + child2.cur_uA never exceeds the parent's
\* ceiling, in any state of any interleaving of the two children's calls
C1_ChildSum ==
  (ParentOf("A") = "P" /\ ParentOf("B") = "P") =>
    cur_uA["A"] + cur_uA["B"] <= max_uA["P"]

\* t is blocked in the wait loop
Blocked(t) == apc[t] \in { "wait", "sleep" }

\* the reservation of t's delta would be accepted by main_add_current
Sufficient(t) ==
  /\ ParentOf(t) # "NULL"
  /\ ~add_fails(cur_uA[ParentOf(t)], max_uA[ParentOf(t)],
                req[t] - cur_uA[t])

\* t's call has returned success with the requested allocation
Granted(t) == apc[t] = "idle" /\ aret[t] = "OK" /\ cur_uA[t] = req[t]

\* C2: a blocked request whose delta fits the parent's headroom after a
\* sibling's release eventually returns success with cur_uA equal to the
\* requested value (unless the headroom is taken away again first)
C2_BlockedCompletes ==
  \A t \in Callers :
    (Blocked(t) /\ Sufficient(t)) ~> (Granted(t) \/ ~Sufficient(t))

\* C3: an instance that set_mode(Fast) put in Fast mode (get_mode reports
\* Fast) never enters the wait on the parent's wait queue
C3_FastNeverWaits ==
  \A t \in Children :
    arb_get_mode(t) = "FAST" =>
      apc[t] \notin { "wait", "sleep", "lock2", "add2", "store2", "unlock2" }

\* C9: no instance has a parent as the probe leaves it, and a call on such
\* an instance never takes the parent path,
\* never waits and never fails, returns with cur_uA equal to the request,
\* and changes no other instance's counters, ceiling or call position,
\* whichever mode set_mode has selected
C9_RootUnbounded ==
  [][ \A t \in RootCallers :
        apc'[t] # apc[t] =>
          /\ apc'[t] \in { "out", "commit", "idle" }
          /\ aret'[t] = "OK"
          /\ apc'[t] = "idle" => cur_uA'[t] = req[t]
          /\ \A c \in Insts \ { t } :
               cur_uA'[c] = cur_uA[c] /\ apc'[c] = apc[c]
          /\ max_uA' = max_uA /\ lock' = lock ]_vars

\* a parentless instance that set_mode put in Fast mode was granted a
\* request above its own max_uA, another one in Normal mode likewise
C9_Witness ==
  /\ ParentOf("P") = "NULL" /\ arb_get_mode("P") = "FAST"
  /\ apc["P"] = "idle" /\ aret["P"] = "OK"
  /\ req["P"] > max_uA["P"] /\ cur_uA["P"] = req["P"]
  /\ ParentOf("A") = "NULL" /\ arb_get_mode("A") = "NORMAL"
  /\ apc["A"] = "idle" /\ aret["A"] = "OK"
  /\ req["A"] = MaxReq /\ cur_uA["A"] = MaxReq

\* C10: a failure is returned only to an instance whose mode is Fast; for
\* any other instance every call that returns, returns success
C10_FailOnlyFast ==
  \A t \in Insts :
    (apc[t] = "idle" /\ aret[t] = "EINVAL") => mode[t] = "FAST"

\* a Normal-mode instance blocked on an unsatisfiable request and later
\* returned success, while a Fast-mode sibling had its request refused
C10_Witness ==
  \E t, u \in Children :
    /\ mode[t] = "NORMAL" /\ waited[t] /\ Granted(t)
    /\ mode[u] = "FAST" /\ apc[u] = "idle" /\ aret[u] = "EINVAL"

(***************************************************************************)
(* Claims on the voltage stepping engine, the classifier and the mode      *)
(* controller                                                              *)
(***************************************************************************)

\* C4: after a set_voltage_selector(s) that returned success, with no other
\* write to the control register in between, get_voltage_selector returns s
C4_RoundTrip == (vgot # -1 /\ vret = "OK") => vgot = vsel

\* a successful set of selector 1 over a register whose select field held
\* other bits, read back as 1
C4_Witness == vret = "OK" /\ vsel = 1 /\ vgot = 1 /\ writes = 1

\* C5: a selector s >= n_voltages is always answered with the
\* invalid-selector error, and the call leaves the control register as it
\* was and makes no register write
C5_InvalidSelector ==
  [][ vsel' >= sreg.n_voltages =>
        /\ vret' = "EINVAL" /\ writes' = 0 /\ vpc' = "idle"
        /\ base' = base ]_vars

\* a call with s = n_voltages has returned the error
C5_Witness == vsel = sreg.n_voltages /\ vret = "EINVAL" /\ writes = 0

\* C6: two classifier calls on the same control, status and 5V-control
\* values return the same PowerSourceState, and a call writes no register.
\* The first half compares two runs of the classifier: within one behaviour
\* it can only be written as get_power_source agreeing with itself, which
\* holds of every operator, so it is not stated.  The second half is a
\* property of single steps: a step that produces a classification writes
\* none of the three registers.
C6_NoWrite ==
  [][ (ps' # 0 /\ ps' # ps) => UNCHANGED << base, status, v5ctrl >> ]_vars

\* every register fixture a test can construct: all values of the bits a
\* classifier can depend on (select field low bits, disable-FET, own
\* enable, the linear-regulator offset field)
FixtureBases(d) ==
  { trg + fet * d.disable_fet_mask + en * d.enable_mask
        + off * BIT(d.linreg_offset_shift) :
      trg \in 0..3, fet \in { 0, 1 }, en \in { 0, 1 }, off \in 0..3 }

\* the values the classifier returns over all kinds and register fixtures
ReturnedSet ==
  UNION { { get_power_source(of_mxs_regulator_match(k), c, s, b) :
              b \in FixtureBases(of_mxs_regulator_match(k)),
              s \in StatusVals, c \in V5Vals } : k \in Kinds }

\* the five states the decision trees name
ReturnedStates ==
  { HW_POWER_LINREG_DCDC_OFF, HW_POWER_DCDC_LINREG_ON,
    HW_POWER_DCDC_LINREG_OFF, HW_POWER_EXTERNAL_SOURCE_5V,
    HW_POWER_UNKNOWN_SOURCE }

\* C8 as stated: in the classifier revision each of the eight
\* PowerSourceState values is returned for at least one regulator kind and
\* one register tuple
C8_AllEight == rev = "C" => PowerSourceStates \subseteq ReturnedSet

\* C8 amended: exactly five of the eight values are returned, each for at
\* least one kind and tuple (Unknown included); LinRegDcdcReady,
\* DcdcLinregReady and ExternalSourceBattery are returned for none
C8_FiveOfEight ==
  /\ ps # 0 => ps \in ReturnedStates
  /\ ReturnedSet = ReturnedStates

\* a query has returned Unknown
C8_Witness == ps = HW_POWER_UNKNOWN_SOURCE /\ vpc = "idle"

\* the opposite of a valid mode
Opposite(m) == IF m = "FAST" THEN "NORMAL" ELSE "FAST"

\* C7: get_mode after set_mode(Fast) is Fast and after set_mode(Normal) is
\* Normal; set_mode(opposite) followed by set_mode(original) leaves the
\* whole control register as it was before the two calls
C7_ModeRoundTrip ==
  LET mask == mode_mask(rev, kind) IN
  /\ m1 \in { "FAST", "NORMAL" } => mxs_get_mode(mask, base) = m1
  /\ ( /\ m2 = Opposite(mxs_get_mode(mask, b2))
       /\ m1 = mxs_get_mode(mask, b2) ) => base = b2

\* a regulator found in Fast mode was set to Normal and back to Fast
C7_Witness ==
  /\ m2 = "NORMAL" /\ m1 = "FAST"
  /\ mxs_get_mode(mode_mask(rev, kind), b2) = "FAST"
  /\ base = b2

(***************************************************************************)
(* DC-DC converter clock selection (mxs_power.c)                           *)
(***************************************************************************)
SHIFT_FREQSEL == 4
BM_POWER_MISC_FREQSEL == 7 * (2^SHIFT_FREQSEL)
HW_POWER_MISC_FREQSEL_20000_KHZ == 1
HW_POWER_MISC_FREQSEL_24000_KHZ == 2
HW_POWER_MISC_FREQSEL_19200_KHZ == 3
HW_POWER_MISC_SEL_PLLCLK == BIT(0)
EINVAL == 22

\* mutant: the encodings of 19200 and 20000 kHz are exchanged
set_dcdc_clk_freq_sel_swapped(kHz) ==
  CASE kHz = 19200 -> HW_POWER_MISC_FREQSEL_20000_KHZ
    [] kHz = 20000 -> HW_POWER_MISC_FREQSEL_19200_KHZ
    [] kHz = 24000 -> HW_POWER_MISC_FREQSEL_24000_KHZ
    [] OTHER -> -1

\* the switch of set_dcdc_clk_freq: the FREQSEL encoding or'ed into val, -1
\* for the default case (ret = -EINVAL)
set_dcdc_clk_freq_sel(kHz) ==
  CASE kHz = 19200 -> HW_POWER_MISC_FREQSEL_19200_KHZ
    [] kHz = 20000 -> HW_POWER_MISC_FREQSEL_20000_KHZ
    [] kHz = 24000 -> HW_POWER_MISC_FREQSEL_24000_KHZ
    [] OTHER -> -1

\* mutant: the PLL-select bit is not cleared in val
set_dcdc_clk_freq_val_keeppll(r, kHz) ==
  Or(AndNot(r, BM_POWER_MISC_FREQSEL),
     set_dcdc_clk_freq_sel(kHz) * (2^SHIFT_FREQSEL))

\* val of set_dcdc_clk_freq after the two &= and the switch
set_dcdc_clk_freq_val(r, kHz) ==
  Or(AndNot(AndNot(r, BM_POWER_MISC_FREQSEL), HW_POWER_MISC_SEL_PLLCLK),
     set_dcdc_clk_freq_sel(kHz) * (2^SHIFT_FREQSEL))

\* return value of get_dcdc_clk_freq for the register value r
get_dcdc_clk_freq_value(r) ==
  IF And(r, HW_POWER_MISC_SEL_PLLCLK) = 0 THEN 24000
  ELSE LET f == Shr(And(r, BM_POWER_MISC_FREQSEL), SHIFT_FREQSEL) IN
       CASE f = HW_POWER_MISC_FREQSEL_20000_KHZ -> 20000
         [] f = HW_POWER_MISC_FREQSEL_24000_KHZ -> 24000
         [] f = HW_POWER_MISC_FREQSEL_19200_KHZ -> 19200
         [] OTHER -> -EINVAL

\* HW_POWER_MISC at bind time: every FREQSEL, PLL or crystal selected, and a
\* bit of another field
MiscVals ==
  { f * (2^SHIFT_FREQSEL) + pll + o * BIT(8) :
      f \in 0 .. 7, pll \in { 0, 1 }, o \in { 0, 1 } }

\* kHz arguments: the three values of the switch, their neighbours, 0 and a
\* negative one
KHzArgs == { -1, 0, 19199, 19200, 19201, 20000, 24000, 24001 }

InitClk ==
  /\ rev = "B" /\ kind = "vddio" /\ base = 0 /\ status = 0 /\ v5ctrl = 0
  /\ RegIdle /\ ModeIdle /\ ArbIdle /\ VolIdle /\ BindIdle
  /\ misc \in MiscVals
  /\ cpc = "idle" /\ ckhz = 0 /\ cval = 0 /\ cret = "none"
  /\ cwrites = 0 /\ cgot = 0

\* set_dcdc_clk_freq up to and including the first writel (FREQSEL)
set_dcdc_clk_freq(kHz) ==
  /\ cpc = "idle"
  /\ ckhz' = kHz
  /\ cgot' = 0
  /\ IF set_dcdc_clk_freq_sel(kHz) = -1
     THEN /\ cret' = "EINVAL"
          /\ cwrites' = 0
          /\ cval' = 0
          /\ UNCHANGED << misc, cpc >>
     ELSE /\ cval' = set_dcdc_clk_freq_val(misc, kHz)
          /\ misc' = cval'
          /\ cwrites' = 1
          /\ cret' = "none"
          /\ cpc' = "pllclk"
  /\ UNCHANGED << regvars, modevars, arbvars, volvars, initvars >>

\* the second writel: val | HW_POWER_MISC_SEL_PLLCLK, and return 0
set_dcdc_clk_freq_pllclk ==
  /\ cpc = "pllclk"
  /\ misc' = Or(cval, HW_POWER_MISC_SEL_PLLCLK)
  /\ cwrites' = 2
  /\ cret' = "OK"
  /\ cpc' = "idle"
  /\ UNCHANGED << regvars, modevars, arbvars, volvars, initvars, ckhz, cval, cgot >>

get_dcdc_clk_freq ==
  /\ cpc = "idle"
  /\ cgot' = get_dcdc_clk_freq_value(misc)
  /\ UNCHANGED << regvars, modevars, arbvars, volvars, initvars, misc, cpc, ckhz, cval,
                  cret, cwrites >>

NextClk ==
  \/ \E kHz \in KHzArgs : set_dcdc_clk_freq(kHz)
  \/ set_dcdc_clk_freq_pllclk
  \/ get_dcdc_clk_freq

SpecClk == InitClk /\ [][NextClk]_vars

\* C13: set_dcdc_clk_freq returns 0 for exactly 19200, 20000 and 24000 kHz;
\* for any other value it returns -EINVAL without a register write; after an
\* accepted value k, get_dcdc_clk_freq returns k.
C13_ClkFreq ==
  (cpc = "idle" /\ cret # "none") =>
    IF ckhz \in { 19200, 20000, 24000 }
    THEN cret = "OK" /\ cwrites = 2 /\ (cgot # 0 => cgot = ckhz)
    ELSE cret = "EINVAL" /\ cwrites = 0

\* 19200 kHz set over a register that selected another frequency, read back
C13_Witness ==
  /\ cpc = "idle" /\ cret = "OK" /\ ckhz = 19200 /\ cgot = 19200
  /\ And(misc, BIT(8)) # 0

\* a rejected neighbour of an accepted value
C13_WitnessReject ==
  cpc = "idle" /\ cret = "EINVAL" /\ ckhz = 19201 /\ cwrites = 0

(***************************************************************************)
(* Mode controller: rejected and accepted modes                            *)
(***************************************************************************)
\* C12: mxs_set_mode called with a mode other than FAST and NORMAL returns
\* -EINVAL, makes no register write and leaves the control register as it
\* was; called with FAST or NORMAL it returns 0.
C12_SetModeResult ==
  mret # "none" =>
    IF m1 \in { "FAST", "NORMAL" }
    THEN mret = "OK"
    ELSE mret = "EINVAL" /\ mwrites = 0 /\ base = b1

\* an accepted call that changed the register, followed by a rejected one
C12_Witness ==
  /\ m1 \in { "IDLE", "STANDBY" } /\ mret = "EINVAL" /\ mwrites = 0
  /\ m2 \in { "FAST", "NORMAL" } /\ b1 # b2

(***************************************************************************)
(* Classifier decision tree, rev C                                         *)
(***************************************************************************)
\* the register fields the decision tree is stated over
fet_set == And(base, sreg.disable_fet_mask) # 0
vbus_valid == And(status, BM_POWER_STS_VBUSVALID0_STATUS) # 0
dcdc_enabled == And(v5ctrl, BM_POWER_5VCTRL_ENABLE_DCDC) # 0
own_enable == And(base, sreg.enable_mask) # 0
\* the linear-regulator offset field of the control register
linreg_field ==
  Shr(And(base, sreg.linreg_offset_mask), sreg.linreg_offset_shift)

\* C14: with the disable-FET bit set the classifier returns
\* EXTERNAL_SOURCE_5V when 5V is valid, and otherwise LINREG_DCDC_OFF when
\* the linear-regulator offset field is 0, for every kind.
C14_DisableFet ==
  (ps # 0 /\ fet_set) =>
    IF vbus_valid
    THEN ps = HW_POWER_EXTERNAL_SOURCE_5V
    ELSE (linreg_field = HW_POWER_LINREG_OFFSET_LINREG_MODE
            => ps = HW_POWER_LINREG_DCDC_OFF)

\* C15 as stated: with the disable-FET bit clear and 5V valid, every kind is
\* classified DCDC_LINREG_ON when ENABLE_DCDC is set and LINREG_DCDC_OFF
\* otherwise, whatever the linear-regulator offset.
C15_FiveVoltAllKinds ==
  (ps # 0 /\ ~fet_set /\ vbus_valid) =>
    ps = IF dcdc_enabled THEN HW_POWER_DCDC_LINREG_ON
                         ELSE HW_POWER_LINREG_DCDC_OFF

\* C15 amended: with the disable-FET bit clear and 5V valid, vdda and vddd
\* are classified DCDC_LINREG_ON when ENABLE_DCDC is set and LINREG_DCDC_OFF
\* otherwise, whatever the linear-regulator offset; vddio is classified
\* DCDC_LINREG_ON or UNKNOWN when ENABLE_DCDC is set and LINREG_DCDC_OFF or
\* UNKNOWN otherwise.
C15_FiveVolt ==
  (ps # 0 /\ ~fet_set /\ vbus_valid) =>
    IF sreg.get_power_source = "vdda_vddd"
    THEN ps = IF dcdc_enabled THEN HW_POWER_DCDC_LINREG_ON
                              ELSE HW_POWER_LINREG_DCDC_OFF
    ELSE ps \in { IF dcdc_enabled THEN HW_POWER_DCDC_LINREG_ON
                                   ELSE HW_POWER_LINREG_DCDC_OFF,
                  HW_POWER_UNKNOWN_SOURCE }

\* vdda or vddd classified on the 5V path with an offset that is neither of
\* the two encodings the other branches test
C15_Witness ==
  /\ ps = HW_POWER_LINREG_DCDC_OFF /\ ~fet_set /\ vbus_valid
  /\ ~dcdc_enabled /\ sreg.get_power_source = "vdda_vddd"
  /\ get_linreg_offset(sreg, base) = 1
  /\ linreg_field = HW_POWER_LINREG_OFFSET_DCDC_MODE

\* C16: with the disable-FET bit clear, 5V not valid and the offset field
\* equal to 2, a regulator that has an enable bit is classified
\* DCDC_LINREG_ON when that bit is set and DCDC_LINREG_OFF when it is clear.
C16_BatteryPath ==
  ( /\ ps # 0 /\ ~fet_set /\ ~vbus_valid /\ sreg.enable_mask # 0
    /\ linreg_field = HW_POWER_LINREG_OFFSET_DCDC_MODE ) =>
    ps = IF own_enable THEN HW_POWER_DCDC_LINREG_ON
                       ELSE HW_POWER_DCDC_LINREG_OFF

\* C17: the classifier returns UNKNOWN when the disable-FET bit is set, 5V is
\* not valid and the offset is not the linear-mode encoding, and when the
\* disable-FET bit is clear, 5V is not valid and the offset is not the
\* DC-DC-mode encoding.
C17_Unknown ==
  (ps # 0 /\ ~vbus_valid) =>
    /\ (fet_set /\ linreg_field # HW_POWER_LINREG_OFFSET_LINREG_MODE)
         => ps = HW_POWER_UNKNOWN_SOURCE
    /\ (~fet_set /\ linreg_field # HW_POWER_LINREG_OFFSET_DCDC_MODE)
         => ps = HW_POWER_UNKNOWN_SOURCE

\* C18: the classification does not depend on the output-select field: it
\* equals the classification of the same registers with that field cleared.
C18_SelectIndependent ==
  ps # 0 =>
    ps = get_power_source(sreg, v5ctrl, status, AndNot(base, sreg.vsel_mask))

\* C19: a mxs_set_voltage_sel call with a valid selector classifies the
\* register it has just written; for LINREG_DCDC_OFF, LINREG_DCDC_READY and
\* EXTERNAL_SOURCE_5V it sleeps and returns 0 from there, without entering
\* the DC_OK poll, whatever the status register does meanwhile; for every
\* other classification it sleeps and enters the poll.
C19_SkipOrPoll ==
  [][ /\ (vpc = "classify" /\ vpc' # "classify") =>
           /\ writes = 1
           /\ And(base, sreg.vsel_mask) = vsel
           /\ ps' = get_power_source(sreg, v5ctrl, status, base)
           /\ vpc' = IF ps' \in { HW_POWER_LINREG_DCDC_OFF,
                                  HW_POWER_LINREG_DCDC_READY,
                                  HW_POWER_EXTERNAL_SOURCE_5V }
                     THEN "msleep" ELSE "usleep"
           /\ vret' = "none"
      /\ (vpc = "msleep" /\ vpc' # "msleep") =>
           vpc' = "idle" /\ vret' = "OK" /\ writes' = 1
      /\ (vpc = "usleep" /\ vpc' # "usleep") =>
           vpc' = "poll" /\ vret' = "none" /\ elapsed' = 0
    ]_vars

\* a call that succeeded on the skip path while DC_OK is deasserted, and the
\* classification that made it skip
C19_Witness ==
  /\ vpc = "idle" /\ vret = "OK" /\ writes = 1
  /\ And(status, BM_POWER_STS_DC_OK) = 0
  /\ ps = HW_POWER_EXTERNAL_SOURCE_5V

\* a call that entered the poll on an UNKNOWN classification
C19_WitnessPoll == vpc = "poll" /\ ps = HW_POWER_UNKNOWN_SOURCE

(***************************************************************************)
(* Voltage stepping engine: timeout and write schedule                     *)
(***************************************************************************)
\* the select field of the control register as the running revision masks it
vsel_field(r) ==
  And(r, IF rev = "C" THEN sreg.vsel_mask ELSE rdesc(rev, kind).vsel_mask)

\* C11: mxs_set_voltage of rev B and mxs_set_voltage_sel, leaving a poll
\* while DC_OK is deasserted, return -ETIMEDOUT, and the select field then
\* holds the value the call wrote: the register is not rolled back.
C11_TimeoutKeepsValue ==
  [][ ( /\ rev \in { "B", "C" }
        /\ vpc \in { "poll", "fast", "slow" } /\ vpc' = "idle"
        /\ And(status, BM_POWER_STS_DC_OK) = 0 ) =>
        /\ vret' = "ETIMEDOUT"
        /\ base' = base
        /\ vsel_field(base') = vsel
    ]_vars

\* rev B timed out after both writes, the select field changed by the call
C11_Witness ==
  /\ rev = "B" /\ vpc = "idle" /\ vret = "ETIMEDOUT" /\ writes = 2
  /\ vsel_field(base) = vsel /\ vsel \notin TrgVals

\* mxs_set_voltage_sel timed out, the select field changed by the call
C11_WitnessSel ==
  /\ rev = "C" /\ vpc = "idle" /\ vret = "ETIMEDOUT"
  /\ vsel_field(base) = vsel /\ vsel \notin TrgVals

\* C20 as stated: every polling voltage-set operation whose polling ends
\* without DC_OK seen has written the control register a second time, and no
\* call writes it more than twice.
C20_TwoPhase ==
  /\ writes <= 2
  /\ (vpc = "idle" /\ vret \in { "ETIMEDOUT", "1" }) => writes = 2

\* C20 amended: mxs_set_voltage of rev A and rev B writes once and polls in
\* the first loop; it returns 0 from there after exactly one write; when
\* that loop runs out it writes the same word again and polls in one more
\* phase (rev B) or in up to two more phases without a further write
\* (rev A). mxs_set_voltage_sel writes exactly once and polls in one phase.
\* No call writes more than twice, and a second write leaves the register
\* as the first one left it.
C20_Schedule ==
  [][ /\ writes' <= 2
      /\ rev = "C" =>
           /\ vpc' \in { "classify", "msleep", "usleep", "poll" }
                => writes' = 1
           /\ (vpc # "idle" /\ vpc' = "idle") => writes' = 1
      /\ rev \in { "A", "B" } =>
           /\ vpc' = "fast" => writes' = 1
           /\ vpc' \in { "slow", "third" } => writes' = 2
           /\ vpc' = "third" => rev = "A"
           /\ (vpc = "fast" /\ vpc' = "idle") => vret' = "OK" /\ writes' = 1
           /\ (vpc' = "idle" /\ vret' \in { "ETIMEDOUT", "1" })
                => writes' = 2
      /\ (writes = 1 /\ writes' = 2) =>
           base' = base /\ vsel_field(base') = vsel
    ]_vars

\* a call that succeeded in a later phase, after the second write
C20_Witness ==
  /\ rev \in { "A", "B" } /\ vpc = "idle" /\ vret = "OK" /\ writes = 2
  /\ vsel_field(base) = vsel /\ vsel \notin TrgVals

\* the third polling phase of rev A
C20_WitnessThird == rev = "A" /\ vpc = "third" /\ writes = 2

\* C21: every running voltage-set call returns, with 0 or with the
\* revision's timeout value, whatever DC_OK does, when the caller keeps
\* being scheduled and jiffies keeps advancing.
C21_Terminates ==
  (vpc # "idle") ~>
    (vpc = "idle" /\ vret \in { "OK", set_voltage_timeout_ret(rev) })

\* rev A gave up after its three polling loops
C21_Witness ==
  /\ rev = "A" /\ vpc = "idle" /\ vret = "1" /\ writes = 2
  /\ And(status, BM_POWER_STS_DC_OK) = 0

(***************************************************************************)
(* Bind-time correction of the linear-regulator offset                     *)
(***************************************************************************)
\* the linear-regulator offset field of the register value r
linreg_field_of(r) ==
  Shr(And(r, sreg.linreg_offset_mask), sreg.linreg_offset_shift)

\* C22: when regulator_init finds the offset field below 2 and the
\* classifier reports DCDC_LINREG_ON or DCDC_LINREG_READY, the offset field
\* is 2 after it has returned.
C22_OffsetCorrected ==
  ( /\ ipc = "done"
    /\ linreg_field_of(ibase) < HW_POWER_LINREG_OFFSET_DCDC_MODE
    /\ get_power_source(sreg, v5ctrl, status, ibase)
         \in { HW_POWER_DCDC_LINREG_ON, HW_POWER_DCDC_LINREG_READY } )
    => linreg_field_of(base) = HW_POWER_LINREG_OFFSET_DCDC_MODE

\* C23: regulator_init leaves every bit outside the offset field as it
\* found it, and writes nothing when the offset field is not below 2 or the
\* classifier does not report a DC-DC-backed state.
C23_InitFrame ==
  ipc = "done" =>
    /\ AndNot(base, sreg.linreg_offset_mask)
         = AndNot(ibase, sreg.linreg_offset_mask)
    /\ ( \/ linreg_field_of(ibase) >= HW_POWER_LINREG_OFFSET_DCDC_MODE
         \/ get_power_source(sreg, v5ctrl, status, ibase)
              \notin { HW_POWER_DCDC_LINREG_ON, HW_POWER_DCDC_LINREG_READY,
                       HW_POWER_EXTERNAL_SOURCE_5V } )
         => iwrites = 0

(***************************************************************************)
(* Current budget arbiter: locking, wake-ups and failures                  *)
(***************************************************************************)
\* C24: whenever the parent's lock is held, the cur_uA of the children add
\* up to no more than the parent's cur_uA.
C24_LockedSum ==
  lock # "free" => cur_uA["A"] + cur_uA["B"] <= cur_uA["P"]

\* C25: with "A" and "B" attached to the parent "P" and the ceiling fixed,
\* the parent's cur_uA never exceeds the parent's max_uA, in any reachable
\* state.
C25_ParentWithinCeiling ==
  (ParentOf("A") = "P" /\ ParentOf("B") = "P") =>
    cur_uA["P"] <= max_uA["P"]

\* C26: a call on a child changes the child's cur_uA only in its last step,
\* which it reaches through "out"; there a call that lowers the allocation
\* has already reduced the parent's cur_uA by the difference and moves
\* every sleeper of the parent's queue out of its sleep, and a call that
\* does not lower the allocation changes no other caller's position.
C26_WakeOnRelease ==
  [][ \A t \in Children :
        /\ cur_uA'[t] # cur_uA[t] => apc[t] = "commit"
        /\ (apc'[t] = "commit" /\ apc[t] # "commit") => apc[t] = "out"
        /\ (apc[t] = "out" /\ apc'[t] = "commit") =>
             IF req[t] < cur_uA[t]
             THEN /\ applied[t] = req[t] - cur_uA[t]
                  /\ \A i \in Children \ { t } :
                       apc'[i] = IF apc[i] = "sleep" THEN "wait" ELSE apc[i]
             ELSE \A i \in Children \ { t } : apc'[i] = apc[i]
    ]_vars

\* a release has just woken the sibling that slept on the queue
C26_Witness ==
  /\ apc["A"] = "commit" /\ req["A"] < cur_uA["A"]
  /\ apc["B"] = "wait" /\ waited["B"] /\ aret["B"] = "EINVAL"

\* C27: the wait predicate agrees with the reservation test: a requester
\* goes to sleep on the parent's queue only when main_add_current would
\* refuse its delta, the exact fit delta = headroom included.
C27_WaitAgrees ==
  [][ \A t \in Children :
        (apc[t] = "wait" /\ apc'[t] = "sleep") => ~Sufficient(t)
    ]_vars

\* C28: a call returns a failure only from the refused first attempt; it
\* has then added nothing to the parent's cur_uA, and the step changes no
\* cur_uA, no max_uA and no other caller's position; before its last step
\* no call changes the caller's cur_uA, and no step of a call changes
\* max_uA.
C28_FailureNoEffect ==
  [][ \A t \in Children :
        /\ apc'[t] # apc[t] => max_uA' = max_uA
        /\ cur_uA'[t] # cur_uA[t] => (apc[t] = "commit" /\ aret'[t] = "OK")
        /\ (apc[t] # "idle" /\ apc'[t] = "idle" /\ aret'[t] # "OK") =>
             /\ apc[t] = "unlock1"
             /\ applied[t] = 0
             /\ cur_uA' = cur_uA
             /\ \A i \in Children \ { t } : apc'[i] = apc[i]
    ]_vars

\* a refused call has returned while the sibling sleeps on the queue
C28_Witness ==
  /\ apc["A"] = "idle" /\ aret["A"] = "EINVAL" /\ req["A"] > cur_uA["A"]
  /\ apc["B"] = "sleep"

(***************************************************************************)
(* Frame of the register writes                                            *)
(***************************************************************************)
\* C29: the write of mxs_set_voltage_sel with a valid selector leaves every
\* bit outside vsel_mask as it was and makes the select field equal to the
\* selector; the rest of the call does not write the register.
C29_SelectFrame ==
  [][ /\ (vpc = "idle" /\ vpc' = "classify") =>
           /\ vsel' < sreg.n_voltages
           /\ AndNot(base', sreg.vsel_mask) = AndNot(base, sreg.vsel_mask)
           /\ And(base', sreg.vsel_mask) = vsel'
      /\ vpc \in { "classify", "msleep", "usleep", "poll" } => base' = base
    ]_vars

\* selector 1 written over a select field that had other bits set, next to
\* bits of other fields
C29_Witness ==
  /\ vpc = "classify" /\ writes = 1 /\ vsel = 1
  /\ And(base, sreg.vsel_mask) = 1
  /\ And(base, sreg.disable_fet_mask) # 0
  /\ linreg_field = HW_POWER_LINREG_OFFSET_DCDC_MODE

\* the disable-output-stepping bit of each regulator's control register
StepBit(name) ==
  CASE name = "vddio" -> BIT(17)
    [] name = "vdda" -> BIT(18)
    [] name = "vddd" -> BIT(22)

\* C30: in rev A and in rev B an accepted mxs_set_mode changes at most the
\* regulator's own stepping bit (17 for vddio, 18 for vdda, 22 for vddd),
\* and mxs_get_mode reports FAST exactly when that bit is set.
C30_ModeFrame ==
  mret = "OK" =>
    /\ AndNot(base, StepBit(kind)) = AndNot(b1, StepBit(kind))
    /\ mxs_get_mode(mode_mask(rev, kind), base) =
         (IF And(base, StepBit(kind)) # 0 THEN "FAST" ELSE "NORMAL")

(***************************************************************************)
(* Microvolt interface, rev A and rev B                                    *)
(***************************************************************************)
\* C31: in rev B (mxs-regulator.c), with min_uV < max_uV in the
\* constraints, mxs_set_voltage rejects a max_uV outside them with -EINVAL
\* and without a write; for a max_uV inside them the computed field value
\* lies in 0 .. n_voltages and within vsel_mask; and after a call that
\* returned 0, mxs_get_voltage returns a voltage of at least min_uV and at
\* most the requested max_uV.
C31_MicrovoltRange ==
  rev = "B" =>
    /\ con.min_uV < con.max_uV
    /\ (vpc = "idle" /\ vret # "none") =>
         (vret = "EINVAL" <=> (uv < con.min_uV \/ uv > con.max_uV))
    /\ vret = "EINVAL" => writes = 0
    /\ writes >= 1 =>
         /\ vsel \in 0 .. rdesc(rev, kind).n_voltages
         /\ And(vsel, rdesc(rev, kind).vsel_mask) = vsel
         /\ uv >= con.min_uV /\ uv <= con.max_uV
    /\ (vpc = "idle" /\ vret = "OK" /\ vgot # -1) =>
         (vgot >= con.min_uV /\ vgot <= uv)

\* a request off the step grid, set and read back strictly below it
C31_Witness ==
  /\ rev = "B" /\ vpc = "idle" /\ vret = "OK" /\ vgot # -1
  /\ uv = con.max_uV - 1 /\ vgot < uv /\ vgot > con.min_uV
  /\ vsel = rdesc(rev, kind).n_voltages - 1

\* a request one step above the constraints, rejected
C31_WitnessReject ==
  rev = "B" /\ vpc = "idle" /\ vret = "EINVAL" /\ uv > con.max_uV /\ writes = 0

(***************************************************************************)
(* DC-DC clock selection: order of the two writes                          *)
(***************************************************************************)
\* the FREQSEL field of the register value r
freqsel_of(r) == Shr(And(r, BM_POWER_MISC_FREQSEL), SHIFT_FREQSEL)

\* C32: an accepted set_dcdc_clk_freq first writes the new FREQSEL with
\* SEL_PLLCLK clear and the other bits kept, then the same word with
\* SEL_PLLCLK set; between the two writes the PLL is not selected, and the
\* register never selects the PLL with a FREQSEL other than the one asked
\* for once the call has written.
C32_WriteOrder ==
  [][ /\ (cpc = "idle" /\ cpc' = "pllclk") =>
           /\ cwrites' = 1
           /\ And(misc', HW_POWER_MISC_SEL_PLLCLK) = 0
           /\ freqsel_of(misc') = set_dcdc_clk_freq_sel(ckhz')
           /\ AndNot(AndNot(misc', BM_POWER_MISC_FREQSEL),
                     HW_POWER_MISC_SEL_PLLCLK)
                = AndNot(AndNot(misc, BM_POWER_MISC_FREQSEL),
                         HW_POWER_MISC_SEL_PLLCLK)
      /\ (cpc = "pllclk" /\ cpc' # "pllclk") =>
           /\ cpc' = "idle" /\ cwrites' = 2 /\ cret' = "OK"
           /\ misc' = misc + HW_POWER_MISC_SEL_PLLCLK
      /\ cpc = "pllclk" => And(misc, HW_POWER_MISC_SEL_PLLCLK) = 0
    ]_vars

\* between the two writes: the new FREQSEL is in place, the PLL is not yet
\* selected, a bit of another field is still set
C32_Witness ==
  /\ cpc = "pllclk" /\ cwrites = 1 /\ ckhz = 19200
  /\ freqsel_of(misc) = HW_POWER_MISC_FREQSEL_19200_KHZ
  /\ And(misc, HW_POWER_MISC_SEL_PLLCLK) = 0
  /\ And(misc, BIT(8)) # 0

=============================================================================
